---- MODULE Spec2Model ----
(***************************************************************************)
(* Model of the pr-kind-labeler reconciliation engine                      *)
(* (package labeler: New, ProcessPR, fetchLabels, processKindLabels,       *)
(* processReleaseNotes, syncLabels, joinErrs) together with the label      *)
(* store it talks to.  PR bodies, labels, kinds and error messages are     *)
(* TLA+ strings handled character by character, so the three regular       *)
(* expressions of the package are modelled by what they match.             *)
(*                                                                         *)
(* A TLA+ string literal cannot hold the grave accent U+0060; the          *)
(* character BQ stands for it wherever the Go source writes one.           *)
(***************************************************************************)
EXTENDS Integers, Sequences, FiniteSets, TLC

\* ------------------------------------------------------------------------
\* Bounds of the model
\* ------------------------------------------------------------------------

\* largest number of labels on the PR before the first pass
MaxSnapshot == 1

\* largest number of directive lines in front of the release-note part of a body
MaxKindLines == 2

\* number of process invocations (New + ProcessPR) on the same PR
MaxPasses == 2

\* ------------------------------------------------------------------------
\* pkg/kinds and pkg/labels: the policy table
\* ------------------------------------------------------------------------

InvalidKindLabel == "do-not-merge/kind-invalid"

InvalidReleaseNoteLabel == "do-not-merge/release-note-invalid"

ReleaseNoteLabel == "release-note"

DeprecatedReleaseNoteLabel == "release-note-needed"

ReleaseNoteNoneLabel == "release-note-none"

SupportedKinds ==
  {"design", "deprecation", "feature", "fix", "breaking_change",
   "documentation", "cleanup", "flake"}

DeprecatedKindMap == [new_feature |-> "feature", bug_fix |-> "fix"]

\* ------------------------------------------------------------------------
\* Strings, character by character
\* ------------------------------------------------------------------------

BQ == "~"

Fence == BQ \o BQ \o BQ

Char(s, i) == SubSeq(s, i, i)

UpperLetters == "ABCDEFGHIJKLMNOPQRSTUVWXYZ"

LowerLetters == "abcdefghijklmnopqrstuvwxyz"

Digits == "0123456789"

CharsOf(s) == {Char(s, i) : i \in 1..Len(s)}

\* position of character c in string s, 0 when absent
IndexOf(s, c) ==
  IF \E i \in 1..Len(s) : Char(s, i) = c
  THEN CHOOSE i \in 1..Len(s) : Char(s, i) = c
  ELSE 0

\* each upper-case letter with its lower-case letter
LowerOf ==
  [c \in CharsOf(UpperLetters) |-> Char(LowerLetters, IndexOf(UpperLetters, c))]

\* unicode.ToLower on one ASCII character
ToLowerChar(c) == IF c \in DOMAIN LowerOf THEN LowerOf[c] ELSE c

RECURSIVE ToLowerFrom(_, _)
ToLowerFrom(s, i) ==
  IF i > Len(s) THEN "" ELSE ToLowerChar(Char(s, i)) \o ToLowerFrom(s, i + 1)

\* strings.ToLower
ToLower(s) == ToLowerFrom(s, 1)

\* strings.EqualFold on ASCII text
EqualFold(s, t) == ToLower(s) = ToLower(t)

\* the regexp class \s and the white space of strings.TrimSpace (ASCII)
IsSpace(c) == c \in {" ", "\t", "\n", "\r", "\f"}

\* the characters of the class [a-z0-9_/-] under the flag (?i)
KindChars ==
  CharsOf(LowerLetters) \cup CharsOf(UpperLetters) \cup CharsOf(Digits)
  \cup {"_", "/", "-"}

IsKindChar(c) == c \in KindChars

\* does string p occur in s starting at position i
MatchAt(s, i, p) ==
  /\ i >= 1
  /\ i + Len(p) - 1 <= Len(s)
  /\ SubSeq(s, i, i + Len(p) - 1) = p

\* strings.HasPrefix
HasPrefix(s, p) == MatchAt(s, 1, p)

\* strings.TrimPrefix
TrimPrefix(s, p) == IF HasPrefix(s, p) THEN SubSeq(s, Len(p) + 1, Len(s)) ELSE s

\* strings.Contains
Contains(s, p) ==
  LET n == Len(p)
  IN \E i \in 1..(Len(s) - n + 1) : SubSeq(s, i, i + n - 1) = p

\* first position >= i where p occurs in s, 0 when there is none
RECURSIVE FindFrom(_, _, _)
FindFrom(s, i, p) ==
  IF i + Len(p) - 1 > Len(s) THEN 0
  ELSE IF MatchAt(s, i, p) THEN i
  ELSE FindFrom(s, i + 1, p)

\* first position >= i of s that holds no white space, Len(s)+1 when none
RECURSIVE SkipSpace(_, _)
SkipSpace(s, i) ==
  IF i <= Len(s) /\ IsSpace(Char(s, i)) THEN SkipSpace(s, i + 1) ELSE i

\* last position <= j of s that holds no white space, but not below lo - 1
RECURSIVE SkipSpaceBack(_, _, _)
SkipSpaceBack(s, lo, j) ==
  IF j >= lo /\ IsSpace(Char(s, j)) THEN SkipSpaceBack(s, lo, j - 1) ELSE j

\* strings.TrimSpace
TrimSpace(s) ==
  LET a == SkipSpace(s, 1)
      b == SkipSpaceBack(s, a, Len(s))
  IN SubSeq(s, a, b)

\* first position >= i of s that holds no character of [a-z0-9_/-]
RECURSIVE SkipKindChars(_, _)
SkipKindChars(s, i) ==
  IF i <= Len(s) /\ IsKindChar(Char(s, i)) THEN SkipKindChars(s, i + 1) ELSE i

\* ------------------------------------------------------------------------
\* The three regular expressions
\* ------------------------------------------------------------------------

\* commentRE.ReplaceAllString(body, ""): every leftmost, shortest span from
\* "<!--" to the next "-->" is deleted; an opener without a closer stays.
\* StripCommentsFrom without the flag s of commentRE: a comment that runs over
\* a line end is left in the text
RECURSIVE StripCommentsOnOneLine(_, _)
StripCommentsOnOneLine(s, i) ==
  IF i > Len(s) THEN ""
  ELSE IF /\ MatchAt(s, i, "<!--")
          /\ FindFrom(s, i + 4, "-->") > 0
          /\ \A j \in i..FindFrom(s, i + 4, "-->") : Char(s, j) # "\n"
       THEN StripCommentsOnOneLine(s, FindFrom(s, i + 4, "-->") + 3)
       ELSE Char(s, i) \o StripCommentsOnOneLine(s, i + 1)

RECURSIVE StripCommentsFrom(_, _)
StripCommentsFrom(s, i) ==
  IF i > Len(s) THEN ""
  ELSE IF MatchAt(s, i, "<!--") /\ FindFrom(s, i + 4, "-->") > 0
       THEN StripCommentsFrom(s, FindFrom(s, i + 4, "-->") + 3)
       ELSE Char(s, i) \o StripCommentsFrom(s, i + 1)

StripComments(s) == StripCommentsFrom(s, 1)

\* One attempt of kindRE at position i: "^" needs the start of the text or
\* a preceding newline, then /kind in any case, \s+, and the longest run of
\* kind characters.  The result is <<end of the match + 1, captured text>>,
\* or <<0, "">> when kindRE does not match at i.
\* KindMatchAt without the anchor ^ of kindRE, as the expression was before it
\* was tied to the start of a line
KindMatchAnywhere(s, i) ==
  LET ws == i + 5
      tok == SkipSpace(s, ws)
      fin == SkipKindChars(s, tok)
  IN IF /\ i + 4 <= Len(s)
        /\ ToLower(SubSeq(s, i, i + 4)) = "/kind"
        /\ tok > ws
        /\ fin > tok
     THEN <<fin, SubSeq(s, tok, fin - 1)>>
     ELSE <<0, "">>

KindMatchAt(s, i) ==
  LET ws == i + 5
      tok == SkipSpace(s, ws)
      fin == SkipKindChars(s, tok)
  IN IF /\ (i = 1 \/ Char(s, i - 1) = "\n")
        /\ i + 4 <= Len(s)
        /\ ToLower(SubSeq(s, i, i + 4)) = "/kind"
        /\ tok > ws
        /\ fin > tok
     THEN <<fin, SubSeq(s, tok, fin - 1)>>
     ELSE <<0, "">>

\* kindRE.FindAllStringSubmatch(body, -1): the captures of the successive
\* non-overlapping matches, left to right
RECURSIVE KindMatchesFrom(_, _)
KindMatchesFrom(s, i) ==
  IF i > Len(s) THEN <<>>
  ELSE LET m == KindMatchAt(s, i)
       IN IF m[1] > 0
          THEN <<m[2]>> \o KindMatchesFrom(s, m[1])
          ELSE KindMatchesFrom(s, i + 1)

KindMatches(s) == KindMatchesFrom(s, 1)

\* releaseNoteRE.FindStringSubmatch(body): the match starts at the first
\* opening fence that has a closing fence behind it; the first \s* takes all
\* the white space, the lazy group stops as early as the trailing \s* and
\* the next fence allow.  found = (len(match) >= 2), capture = match[1].
NoteMatch(s) ==
  LET opener == Fence \o "release-note"
      open == FindFrom(s, 1, opener)
      after == open + Len(opener)
      start == SkipSpace(s, after)
      close == FindFrom(s, start, Fence)
      stop == SkipSpaceBack(s, start, close - 1)
  IN IF open > 0 /\ close > 0
     THEN [found |-> TRUE, capture |-> SubSeq(s, start, stop)]
     ELSE [found |-> FALSE, capture |-> ""]

\* ------------------------------------------------------------------------
\* Ordering of strings (sort.Strings compares byte by byte)
\* ------------------------------------------------------------------------

\* the printable ASCII characters in code order; BQ sits at the place of the
\* grave accent it stands for
AsciiOrder ==
  " !\"#$%&'()*+,-./" \o Digits \o ":;<=>?@" \o UpperLetters \o "[\\]^_" \o BQ
  \o LowerLetters \o "{|}"

RankOf == [c \in CharsOf(AsciiOrder) |-> IndexOf(AsciiOrder, c)]

CharRank(c) == RankOf[c]

RECURSIVE StrLessFrom(_, _, _)
StrLessFrom(a, b, i) ==
  IF i > Len(a) THEN i <= Len(b)
  ELSE IF i > Len(b) THEN FALSE
  ELSE IF Char(a, i) = Char(b, i) THEN StrLessFrom(a, b, i + 1)
  ELSE CharRank(Char(a, i)) < CharRank(Char(b, i))

StrLess(a, b) == StrLessFrom(a, b, 1)

\* the keys of a map collected into a slice that is left as the iteration
\* gave it, here in descending order
RECURSIVE KeysAsIterated(_)
KeysAsIterated(S) ==
  IF S = {} THEN <<>>
  ELSE LET m == CHOOSE x \in S : \A y \in S \ {x} : StrLess(y, x)
       IN <<m>> \o KeysAsIterated(S \ {m})

\* the keys of a map collected into a slice and passed to sort.Strings
RECURSIVE SortStrings(_)
SortStrings(S) ==
  IF S = {} THEN <<>>
  ELSE LET m == CHOOSE x \in S : \A y \in S \ {x} : StrLess(x, y)
       IN <<m>> \o SortStrings(S \ {m})

\* ------------------------------------------------------------------------
\* Error texts
\* ------------------------------------------------------------------------

\* the verb %q applied to a string without special characters
Quote(s) == "\"" \o s \o "\""

RECURSIVE JoinWith(_, _, _)
JoinWith(seq, sep, i) ==
  IF i > Len(seq) THEN ""
  ELSE (IF i > 1 THEN sep ELSE "") \o seq[i] \o JoinWith(seq, sep, i + 1)

\* the verb %v applied to a []string
FormatList(seq) == "[" \o JoinWith(seq, " ", 1) \o "]"

\* the verb %q applied to a []string
FormatQuotedList(seq) ==
  "[" \o JoinWith([i \in 1..Len(seq) |-> Quote(seq[i])], " ", 1) \o "]"

\* number of iteration orders of the SupportedKinds map that are told apart
MaxKeyOrders == 2

SupportedSorted == SortStrings(SupportedKinds)

\* slices.Collect(maps.Keys(kinds.SupportedKinds)): the map is iterated in an
\* unspecified order; the orders told apart are rotations of the sorted one
KeyOrder(n) ==
  [i \in 1..Len(SupportedSorted) |->
     SupportedSorted[((i + n - 2) % Len(SupportedSorted)) + 1]]

KeyOrders == {KeyOrder(n) : n \in 1..MaxKeyOrders}

\* each of these orders as the verb %v prints it
ListText == [order \in KeyOrders |-> FormatList(order)]

NoKindError(order) ==
  "no /kind labels found, labeling " \o Quote(InvalidKindLabel)
  \o ". supported kinds: " \o ListText[order]

InvalidKindError(k, order) ==
  "invalid /kind " \o Quote(k) \o " detected, labeling "
  \o Quote(InvalidKindLabel) \o ". supported kinds: " \o ListText[order]

MissingBlockError ==
  "missing or empty " \o Fence \o "release-note" \o Fence
  \o " block; please add your line. If no release notes, add:\n"
  \o Fence \o "release-note\nNONE\n" \o Fence

EmptyBlockError ==
  "missing or empty " \o Fence \o "release-note" \o Fence
  \o " block; please add your line or 'NONE'"

\* the text of the error a failed call of the GitHub client carries
RemoteFailure == "unexpected status code"

ListError == "failed to list labels: " \o RemoteFailure

AddError(list) ==
  "failed to add labels " \o FormatQuotedList(list) \o ": " \o RemoteFailure

RemoveError(label) ==
  "failed to remove label " \o Quote(label) \o ": " \o RemoteFailure

\* an error value: nil, or a value whose Error() is text
NilError == [isNil |-> TRUE, text |-> ""]

ErrorOf(t) == [isNil |-> FALSE, text |-> t]

\* errors.Join: nil when there is nothing to join, else the texts joined by \n
ErrorsJoin(seq) == IF Len(seq) = 0 THEN NilError ELSE ErrorOf(JoinWith(seq, "\n", 1))

\* JoinErrorText that gives the message of the first error only
JoinErrorTextFirst(seq) == IF Len(seq) = 0 THEN "" ELSE seq[1]

\* joinError.Error
JoinErrorText(seq) ==
  IF Len(seq) = 0 THEN ""
  ELSE IF Len(seq) = 1 THEN seq[1]
  ELSE JoinWith([i \in 1..Len(seq) |-> "\n- " \o seq[i]], "", 1)

\* JoinErrs without the test for no errors: the empty joinError is returned
\* as an error value that is not nil
JoinErrsAlwaysValue(seq) == ErrorOf(JoinErrorText(seq))

\* joinErrs
JoinErrs(seq) == IF Len(seq) = 0 THEN NilError ELSE ErrorOf(JoinErrorText(seq))

\* ------------------------------------------------------------------------
\* The inputs: PR bodies and label snapshots
\* ------------------------------------------------------------------------

\* lines a PR description may carry in front of its release-note part
KindLineForms ==
  {"/kind feature", "/KIND Bug_Fix", "/kind banana", "/kind install"}

NoteBlock(text) == Fence \o "release-note" \o text \o Fence

\* the release-note part of a PR description: none, a block that holds
\* nothing but the comment of the PR template, NONE, and a note
NoteForms ==
  {"", NoteBlock("\n<!-- add\na note -->\n"), NoteBlock("\nNone\n"),
   NoteBlock("\nFixed it\n")}

KindLineSeqs == UNION {[1..n -> KindLineForms] : n \in 0..MaxKindLines}

BodyOf(lines, note) ==
  JoinWith([i \in 1..Len(lines) |-> lines[i] \o "\n"], "", 1) \o note

Bodies == {BodyOf(lines, note) : lines \in KindLineSeqs, note \in NoteForms}

\* lines that put the three regular expressions to the test, each with the
\* text it leaves once its comment spans are deleted and with the kinds it
\* names at the start of a line, behind leading white space, and inside a
\* comment; the fourth names a kind behind other text
TextLineForms ==
  {[text |-> "/kind feature\n", plain |-> "/kind feature\n",
    atStart |-> {"feature"}, indented |-> {}, hidden |-> {}],
   [text |-> "  /Kind Cleanup\n", plain |-> "  /Kind Cleanup\n",
    atStart |-> {}, indented |-> {"cleanup"}, hidden |-> {}],
   [text |-> "see /kind flake\n", plain |-> "see /kind flake\n",
    atStart |-> {}, indented |-> {}, hidden |-> {}],
   [text |-> "<!-- /kind design -->\n", plain |-> "\n",
    atStart |-> {}, indented |-> {}, hidden |-> {"design"}],
   [text |-> "<!--\n/kind documentation\n" \o NoteBlock("\nhidden\n") \o "\n-->\n",
    plain |-> "\n",
    atStart |-> {}, indented |-> {}, hidden |-> {"documentation"}]}

TextNoteForms == {"", NoteBlock("\nFixed it\n")}

TextLineSeqs == UNION {[1..n -> TextLineForms] : n \in 0..MaxKindLines}

\* a body made of such lines and a release-note part, with what is known of it
\* by construction
TextCase(lines, note) ==
  [body |-> JoinWith([i \in 1..Len(lines) |-> lines[i].text], "", 1) \o note,
   plain |-> JoinWith([i \in 1..Len(lines) |-> lines[i].plain], "", 1) \o note,
   atStart |-> UNION {lines[i].atStart : i \in 1..Len(lines)},
   indented |-> UNION {lines[i].indented : i \in 1..Len(lines)},
   hidden |-> UNION {lines[i].hidden : i \in 1..Len(lines)},
   note |-> note]

TextCases == {TextCase(lines, note) : lines \in TextLineSeqs, note \in TextNoteForms}

TextBodies == {c.body : c \in TextCases}

CaseOf == [b \in TextBodies |-> CHOOSE c \in TextCases : c.body = b]

\* every body of the model
AllBodies == Bodies \cup TextBodies

\* "kind/" + k
KindLabel(k) == "kind/" \o k

\* the labels a PR may carry when the bot is invoked
LabelUniverse ==
  {InvalidKindLabel, InvalidReleaseNoteLabel, ReleaseNoteLabel,
   ReleaseNoteNoneLabel, DeprecatedReleaseNoteLabel,
   KindLabel("bug_fix"), KindLabel("feature"), "area/docs"}

\* label sets of PRs the bot has met before: one it labelled on an earlier
\* run, one it rejected, and one that carries the two deprecated labels
LabelledSnapshots ==
  {{KindLabel("feature"), ReleaseNoteLabel},
   {InvalidKindLabel, InvalidReleaseNoteLabel},
   {KindLabel("bug_fix"), DeprecatedReleaseNoteLabel}}

Snapshots ==
  {S \in SUBSET LabelUniverse : Cardinality(S) <= MaxSnapshot}
    \cup LabelledSnapshots

\* ------------------------------------------------------------------------
\* The validators, as functions of the labeler's three maps
\* ------------------------------------------------------------------------

\* the labeler struct: the three maps, as sets of their keys
Labeler(cur, add, rem) ==
  [currentMap |-> cur, labelsToAdd |-> add, labelsToRemove |-> rem]

\* New
NewLabeler == Labeler({}, {}, {})

\* Canonical without the look into DeprecatedKindMap
CanonicalAsDeclared(kind) == kind

\* the rewriting of a deprecated kind in extractKinds
Canonical(kind) ==
  IF kind \in DOMAIN DeprecatedKindMap THEN DeprecatedKindMap[kind] ELSE kind

\* extractKinds
ExtractKinds(sanitized) ==
  LET ms == KindMatches(sanitized)
  IN {Canonical(ToLower(ms[i])) : i \in 1..Len(ms)}

\* AddUnlessPresent without its look at the snapshot
AddAlways(l, label) == [l EXCEPT !.labelsToAdd = @ \cup {label}]

\* l.labelsToAdd[label] = true unless l.currentMap[label]
AddUnlessPresent(l, label) ==
  IF label \in l.currentMap THEN l
  ELSE [l EXCEPT !.labelsToAdd = @ \cup {label}]

\* RemoveIfPresent without its look at the snapshot
RemoveAlways(l, label) == [l EXCEPT !.labelsToRemove = @ \cup {label}]

\* l.labelsToRemove[label] = true if l.currentMap[label]
RemoveIfPresent(l, label) ==
  IF label \in l.currentMap
  THEN [l EXCEPT !.labelsToRemove = @ \cup {label}]
  ELSE l

\* UnsupportedOf with the test of the loop taken once for the whole map: when
\* some kind is unsupported, the loop stops at the first key it meets
AnyOfUnlessSupported(ks) == IF ks \subseteq SupportedKinds THEN {} ELSE ks

\* the kinds the range loop of verifyKinds may stop at
UnsupportedOf(ks) == ks \ SupportedKinds

\* verifyKinds as the first versions of the program had it, without the
\* test for an empty map
VerifyKindsNoEmptyTest(l, ks, k, order) ==
  IF UnsupportedOf(ks) # {}
  THEN [l |-> AddUnlessPresent(l, InvalidKindLabel),
        err |-> ErrorOf(InvalidKindError(k, order))]
  ELSE [l |-> RemoveIfPresent(l, InvalidKindLabel), err |-> NilError]

\* verifyKinds without the removal of do-not-merge/kind-invalid once the
\* kinds are valid
VerifyKindsKeepInvalid(l, ks, k, order) ==
  IF ks = {}
  THEN [l |-> AddUnlessPresent(l, InvalidKindLabel),
        err |-> ErrorOf(NoKindError(order))]
  ELSE IF UnsupportedOf(ks) # {}
  THEN [l |-> AddUnlessPresent(l, InvalidKindLabel),
        err |-> ErrorOf(InvalidKindError(k, order))]
  ELSE [l |-> l, err |-> NilError]

\* verifyKinds that reports an unsupported kind without marking the PR
VerifyKindsUnmarked(l, ks, k, order) ==
  IF ks = {}
  THEN [l |-> AddUnlessPresent(l, InvalidKindLabel),
        err |-> ErrorOf(NoKindError(order))]
  ELSE IF UnsupportedOf(ks) # {}
  THEN [l |-> l, err |-> ErrorOf(InvalidKindError(k, order))]
  ELSE [l |-> RemoveIfPresent(l, InvalidKindLabel), err |-> NilError]

\* verifyKinds; k is the unsupported kind the range loop meets first and
\* order the iteration order of maps.Keys, both used on the error paths only
\* VerifyKinds that also queues the removal of the label of the unsupported
\* kind it met, when the PR carries it
VerifyKindsDropNamed(l, ks, k, order) ==
  IF ks = {}
  THEN [l |-> AddUnlessPresent(l, InvalidKindLabel),
        err |-> ErrorOf(NoKindError(order))]
  ELSE IF UnsupportedOf(ks) # {}
  THEN [l |-> RemoveIfPresent(AddUnlessPresent(l, InvalidKindLabel),
                              "kind/" \o k),
        err |-> ErrorOf(InvalidKindError(k, order))]
  ELSE [l |-> RemoveIfPresent(l, InvalidKindLabel), err |-> NilError]

VerifyKinds(l, ks, k, order) ==
  IF ks = {}
  THEN [l |-> AddUnlessPresent(l, InvalidKindLabel),
        err |-> ErrorOf(NoKindError(order))]
  ELSE IF UnsupportedOf(ks) # {}
  THEN [l |-> AddUnlessPresent(l, InvalidKindLabel),
        err |-> ErrorOf(InvalidKindError(k, order))]
  ELSE [l |-> RemoveIfPresent(l, InvalidKindLabel), err |-> NilError]

\* StaleKindLabels with the migration case only: a kind label whose kind
\* is no longer declared stays
MigratedKindLabels(cur, ks) ==
  {label \in cur :
     /\ HasPrefix(label, "kind/")
     /\ TrimPrefix(label, "kind/") \in DOMAIN DeprecatedKindMap
     /\ DeprecatedKindMap[TrimPrefix(label, "kind/")] \in ks}

\* StaleKindLabels with a loop that is done with a label of a deprecated
\* kind once it has looked at the migration case
StaleKindLabelsDeprecatedApart(cur, ks) ==
  {label \in cur :
     /\ HasPrefix(label, "kind/")
     /\ LET currentKindType == TrimPrefix(label, "kind/")
        IN IF currentKindType \in DOMAIN DeprecatedKindMap
           THEN DeprecatedKindMap[currentKindType] \in ks
           ELSE currentKindType \notin ks}

\* StaleKindLabels without the test for the prefix "kind/"
StaleLabelsAnyPrefix(cur, ks) ==
  {label \in cur :
     LET currentKindType == TrimPrefix(label, "kind/")
     IN \/ /\ currentKindType \in DOMAIN DeprecatedKindMap
           /\ DeprecatedKindMap[currentKindType] \in ks
        \/ currentKindType \notin ks}

\* the labels the second loop of syncKindLabels marks for removal
StaleKindLabels(cur, ks) ==
  {label \in cur :
     /\ HasPrefix(label, "kind/")
     /\ LET currentKindType == TrimPrefix(label, "kind/")
        IN \/ /\ currentKindType \in DOMAIN DeprecatedKindMap
              /\ DeprecatedKindMap[currentKindType] \in ks
           \/ currentKindType \notin ks}

\* syncKindLabels
SyncKindLabels(l, ks) ==
  [l EXCEPT
     !.labelsToAdd = @ \cup ({KindLabel(k) : k \in ks} \ l.currentMap),
     !.labelsToRemove = @ \cup StaleKindLabels(l.currentMap, ks)]

\* VerifyAndSyncKinds starting from maps it makes anew
VerifyAndSyncKindsFreshMaps(l, ks, k, order) ==
  LET v == VerifyKinds(Labeler(l.currentMap, {}, {}), ks, k, order)
  IN IF v.err.isNil
     THEN [l |-> SyncKindLabels(v.l, ks), err |-> NilError]
     ELSE v

\* VerifyAndSyncKinds that goes on to syncKindLabels after verifyKinds failed
VerifyAndSyncKindsAlways(l, ks, k, order) ==
  LET v == VerifyKinds(l, ks, k, order)
  IN [l |-> SyncKindLabels(v.l, ks), err |-> v.err]

\* processKindLabels once the kinds are extracted
VerifyAndSyncKinds(l, ks, k, order) ==
  LET v == VerifyKinds(l, ks, k, order)
  IN IF v.err.isNil
     THEN [l |-> SyncKindLabels(v.l, ks), err |-> NilError]
     ELSE v

\* processReleaseNotes rewritten to clear the whole release-note family that
\* is present and then to set the wanted label, whatever the snapshot holds
NoteRulesClearFamily(l, match) ==
  LET entry == TrimSpace(match.capture)
      family == {InvalidReleaseNoteLabel, ReleaseNoteLabel, ReleaseNoteNoneLabel,
                 DeprecatedReleaseNoteLabel}
      cleared == [l EXCEPT !.labelsToRemove = @ \cup (family \cap l.currentMap)]
  IN IF ~match.found
     THEN [l |-> AddAlways(cleared, InvalidReleaseNoteLabel),
           err |-> ErrorOf(MissingBlockError)]
     ELSE IF entry = ""
     THEN [l |-> AddAlways(cleared, InvalidReleaseNoteLabel),
           err |-> ErrorOf(EmptyBlockError)]
     ELSE IF EqualFold(entry, "NONE")
     THEN [l |-> AddAlways(cleared, ReleaseNoteNoneLabel), err |-> NilError]
     ELSE [l |-> AddAlways(cleared, ReleaseNoteLabel), err |-> NilError]

\* processReleaseNotes with the NONE case of the first version of the
\* program, which left a release-note label in place
NoteRulesKeepNote(l, match) ==
  LET l0 == RemoveIfPresent(l, DeprecatedReleaseNoteLabel)
      entry == TrimSpace(match.capture)
      invalid == RemoveIfPresent(RemoveIfPresent(
                   AddUnlessPresent(l0, InvalidReleaseNoteLabel),
                   ReleaseNoteLabel), ReleaseNoteNoneLabel)
  IN IF ~match.found
     THEN [l |-> invalid, err |-> ErrorOf(MissingBlockError)]
     ELSE IF entry = ""
     THEN [l |-> invalid, err |-> ErrorOf(EmptyBlockError)]
     ELSE IF EqualFold(entry, "NONE")
     THEN [l |-> RemoveIfPresent(
                   AddUnlessPresent(l0, ReleaseNoteNoneLabel),
                   InvalidReleaseNoteLabel),
           err |-> NilError]
     ELSE [l |-> RemoveIfPresent(RemoveIfPresent(
                   AddUnlessPresent(l0, ReleaseNoteLabel),
                   InvalidReleaseNoteLabel), ReleaseNoteNoneLabel),
           err |-> NilError]

\* processReleaseNotes with the removal of release-note-needed placed behind
\* the test for a missing block, so that a body without a block keeps it
NoteRulesMigrateLate(l, match) ==
  LET l0 == RemoveIfPresent(l, DeprecatedReleaseNoteLabel)
      entry == TrimSpace(match.capture)
  IN IF ~match.found
     THEN [l |-> RemoveIfPresent(RemoveIfPresent(
                   AddUnlessPresent(l, InvalidReleaseNoteLabel),
                   ReleaseNoteLabel), ReleaseNoteNoneLabel),
           err |-> ErrorOf(MissingBlockError)]
     ELSE IF entry = ""
     THEN [l |-> RemoveIfPresent(RemoveIfPresent(
                   AddUnlessPresent(l0, InvalidReleaseNoteLabel),
                   ReleaseNoteLabel), ReleaseNoteNoneLabel),
           err |-> ErrorOf(EmptyBlockError)]
     ELSE IF EqualFold(entry, "NONE")
     THEN [l |-> RemoveIfPresent(RemoveIfPresent(
                   AddUnlessPresent(l0, ReleaseNoteNoneLabel),
                   InvalidReleaseNoteLabel), ReleaseNoteLabel),
           err |-> NilError]
     ELSE [l |-> RemoveIfPresent(RemoveIfPresent(
                   AddUnlessPresent(l0, ReleaseNoteLabel),
                   InvalidReleaseNoteLabel), ReleaseNoteNoneLabel),
           err |-> NilError]

\* processReleaseNotes with a blank block handled as the first version of the
\* program handled it: the invalid label is added and nothing is removed
NoteRulesBlankAddsOnly(l, match) ==
  LET l0 == RemoveIfPresent(l, DeprecatedReleaseNoteLabel)
      entry == TrimSpace(match.capture)
  IN IF ~match.found
     THEN [l |-> RemoveIfPresent(RemoveIfPresent(
                   AddUnlessPresent(l0, InvalidReleaseNoteLabel),
                   ReleaseNoteLabel), ReleaseNoteNoneLabel),
           err |-> ErrorOf(MissingBlockError)]
     ELSE IF entry = ""
     THEN [l |-> AddUnlessPresent(l0, InvalidReleaseNoteLabel),
           err |-> ErrorOf(EmptyBlockError)]
     ELSE IF EqualFold(entry, "NONE")
     THEN [l |-> RemoveIfPresent(RemoveIfPresent(
                   AddUnlessPresent(l0, ReleaseNoteNoneLabel),
                   InvalidReleaseNoteLabel), ReleaseNoteLabel),
           err |-> NilError]
     ELSE [l |-> RemoveIfPresent(RemoveIfPresent(
                   AddUnlessPresent(l0, ReleaseNoteLabel),
                   InvalidReleaseNoteLabel), ReleaseNoteNoneLabel),
           err |-> NilError]

\* processReleaseNotes once releaseNoteRE has been applied; match is the
\* outcome of NoteMatch
NoteRules(l, match) ==
  LET l0 == RemoveIfPresent(l, DeprecatedReleaseNoteLabel)
      entry == TrimSpace(match.capture)
      invalid == RemoveIfPresent(RemoveIfPresent(
                   AddUnlessPresent(l0, InvalidReleaseNoteLabel),
                   ReleaseNoteLabel), ReleaseNoteNoneLabel)
  IN IF ~match.found
     THEN [l |-> invalid, err |-> ErrorOf(MissingBlockError)]
     ELSE IF entry = ""
     THEN [l |-> invalid, err |-> ErrorOf(EmptyBlockError)]
     ELSE IF EqualFold(entry, "NONE")
     THEN [l |-> RemoveIfPresent(RemoveIfPresent(
                   AddUnlessPresent(l0, ReleaseNoteNoneLabel),
                   InvalidReleaseNoteLabel), ReleaseNoteLabel),
           err |-> NilError]
     ELSE [l |-> RemoveIfPresent(RemoveIfPresent(
                   AddUnlessPresent(l0, ReleaseNoteLabel),
                   InvalidReleaseNoteLabel), ReleaseNoteNoneLabel),
           err |-> NilError]

\* the regular expressions applied to the bodies of the model, worked out
\* once for each body: commentRE.ReplaceAllString, kindRE.FindAllStringSubmatch,
\* extractKinds and releaseNoteRE.FindStringSubmatch
CommentsStripped == [b \in AllBodies |-> StripComments(b)]

SanitizedBodies == {CommentsStripped[b] : b \in AllBodies}

KindMatchesIn == [t \in SanitizedBodies |-> KindMatches(t)]

KindsIn == [t \in SanitizedBodies |-> ExtractKinds(t)]

\* the captures of kindRE in lower case, before the rewriting of extractKinds
DeclaredIn ==
  [t \in SanitizedBodies |->
     {ToLower(KindMatchesIn[t][i]) : i \in 1..Len(KindMatchesIn[t])}]

NoteMatchIn == [t \in SanitizedBodies |-> NoteMatch(t)]

\* AppendErr keeping the latest error only
KeepLastErr(seq, err) == IF err.isNil THEN seq ELSE <<err.text>>

\* errs = append(errs, err) when err != nil
AppendErr(seq, err) == IF err.isNil THEN seq ELSE Append(seq, err.text)

\* ------------------------------------------------------------------------
\* The state
\* ------------------------------------------------------------------------

VARIABLES
  remote,          \* the labels on the PR in the label store
  body,            \* the body of the PR the events are about
  pass,            \* invocations of the program so far
  prev,            \* what the invocation before this one did
  pc,              \* where the current invocation stands
  syncEnabled,     \* ProcessPR's parameter syncLabels
  labeler,         \* the labeler struct
  sanitizedBody,   \* ProcessPR's local sanitizedBody
  kinds,           \* processKindLabels' local kinds
  match,           \* processReleaseNotes' local match
  ran,             \* the validators that have run, in order
  errs,            \* ProcessPR's local errs
  syncErrs,        \* syncLabels' local errs
  removeList,      \* syncLabels' sorted slice labelsToRemove
  removeIdx,       \* position of syncLabels' removal loop
  calls,           \* the remote calls issued by this invocation
  result           \* the error ProcessPR returned

vars ==
  <<remote, body, pass, prev, pc, syncEnabled, labeler, sanitizedBody,
    kinds, match, ran, errs, syncErrs, removeList, removeIdx, calls, result>>

\* the value of match before releaseNoteRE is applied
NoMatch == [found |-> FALSE, capture |-> ""]

\* a remote call as the label store saw it
Call(op, arg, ok) == [op |-> op, arg |-> arg, ok |-> ok]

\* did every remote call of the invocation succeed
AllCallsOk == \A i \in 1..Len(calls) : calls[i].ok

\* the label set the deltas of the labeler lead to:
\* (snapshot minus toRemove) union toAdd
Desired(l) == (l.currentMap \ l.labelsToRemove) \cup l.labelsToAdd

\* an invocation in short: did it sync with every remote call served, and
\* did it queue any label
PassSummary ==
  [clean |-> syncEnabled /\ calls # <<>> /\ AllCallsOk,
   changed |-> labeler.labelsToAdd \cup labeler.labelsToRemove # {}]

NoPass == [clean |-> FALSE, changed |-> FALSE]

Init ==
  /\ remote \in Snapshots
  /\ body \in Bodies
  /\ pass = 0
  /\ prev = NoPass
  /\ pc = "idle"
  /\ syncEnabled = FALSE
  /\ labeler = NewLabeler
  /\ sanitizedBody = ""
  /\ kinds = {}
  /\ match = NoMatch
  /\ ran = <<>>
  /\ errs = <<>>
  /\ syncErrs = <<>>
  /\ removeList = <<>>
  /\ removeIdx = 1
  /\ calls = <<>>
  /\ result = NilError

\* main: one run of the program on a pull-request event builds a labeler
\* with New and calls ProcessPR, with syncLabels true on the event path and
\* false in manualTest
Invoke(sync) ==
  /\ pc \in {"idle", "done"}
  /\ pass < MaxPasses
  /\ pass' = pass + 1
  /\ prev' = IF pc = "done" THEN PassSummary ELSE NoPass
  /\ pc' = "fetch"
  /\ syncEnabled' = sync
  /\ labeler' = NewLabeler
  /\ sanitizedBody' = ""
  /\ kinds' = {}
  /\ match' = NoMatch
  /\ ran' = <<>>
  /\ errs' = <<>>
  /\ syncErrs' = <<>>
  /\ removeList' = <<>>
  /\ removeIdx' = 1
  /\ calls' = <<>>
  /\ result' = NilError
  /\ UNCHANGED <<remote, body>>

\* fetchLabels succeeds; ProcessPR goes on to strip the comments
FetchLabelsOk ==
  /\ pc = "fetch"
  /\ calls' = Append(calls, Call("list", <<>>, TRUE))
  /\ labeler' = [labeler EXCEPT !.currentMap = remote]
  /\ sanitizedBody' = CommentsStripped[body]
  /\ pc' = "kinds"
  /\ UNCHANGED <<remote, body, pass, prev, syncEnabled, kinds, match, ran, errs,
                 syncErrs, removeList, removeIdx, result>>

\* FetchLabelsFail with the error of fetchLabels dropped: ProcessPR goes on
\* with the empty currentMap of New
FetchLabelsFailIgnored ==
  /\ pc = "fetch"
  /\ calls' = Append(calls, Call("list", <<>>, FALSE))
  /\ sanitizedBody' = CommentsStripped[body]
  /\ pc' = "kinds"
  /\ UNCHANGED <<remote, body, pass, prev, syncEnabled, labeler, kinds, match, ran,
                 errs, syncErrs, removeList, removeIdx, result>>

\* fetchLabels fails; ProcessPR returns its error at once
FetchLabelsFail ==
  /\ pc = "fetch"
  /\ calls' = Append(calls, Call("list", <<>>, FALSE))
  /\ result' = ErrorOf(ListError)
  /\ pc' = "done"
  /\ UNCHANGED <<remote, body, pass, prev, syncEnabled, labeler,
                 sanitizedBody, kinds, match, ran, errs, syncErrs, removeList,
                 removeIdx>>

\* ProcessKindLabels in a ProcessPR that returns as soon as kind validation
\* fails
ProcessKindLabelsReturnOnError ==
  /\ pc = "kinds"
  /\ LET ks == KindsIn[sanitizedBody]
         failing == ks = {} \/ UnsupportedOf(ks) # {}
     IN /\ kinds' = ks
        /\ \E k \in (IF UnsupportedOf(ks) # {} THEN UnsupportedOf(ks) ELSE {""}),
              order \in (IF failing THEN KeyOrders ELSE {KeyOrder(1)}) :
             LET r == VerifyAndSyncKinds(labeler, ks, k, order)
             IN /\ labeler' = r.l
                /\ errs' = AppendErr(errs, r.err)
        /\ pc' = IF failing THEN "return" ELSE "notes"
  /\ ran' = Append(ran, "kind")
  /\ UNCHANGED <<remote, body, pass, prev, syncEnabled, sanitizedBody, match,
                 syncErrs, removeList, removeIdx, calls, result>>

\* processKindLabels and the append of its error
ProcessKindLabels ==
  /\ pc = "kinds"
  /\ LET ks == KindsIn[sanitizedBody]
         failing == ks = {} \/ UnsupportedOf(ks) # {}
     IN /\ kinds' = ks
        /\ \E k \in (IF UnsupportedOf(ks) # {} THEN UnsupportedOf(ks) ELSE {""}),
              order \in (IF failing THEN KeyOrders ELSE {KeyOrder(1)}) :
             LET r == VerifyAndSyncKinds(labeler, ks, k, order)
             IN /\ labeler' = r.l
                /\ errs' = AppendErr(errs, r.err)
  /\ ran' = Append(ran, "kind")
  /\ pc' = "notes"
  /\ UNCHANGED <<remote, body, pass, prev, syncEnabled, sanitizedBody, match,
                 syncErrs, removeList, removeIdx, calls, result>>

\* ProcessReleaseNotes followed by syncLabels whatever the parameter
\* syncLabels says
ProcessReleaseNotesThenSync ==
  /\ pc = "notes"
  /\ LET m == NoteMatchIn[sanitizedBody]
         r == NoteRules(labeler, m)
     IN /\ match' = m
        /\ labeler' = r.l
        /\ errs' = AppendErr(errs, r.err)
  /\ ran' = Append(ran, "note")
  /\ pc' = "add"
  /\ UNCHANGED <<remote, body, pass, prev, syncEnabled, sanitizedBody,
                 kinds, syncErrs, removeList, removeIdx, calls, result>>

\* processReleaseNotes and the append of its error
ProcessReleaseNotes ==
  /\ pc = "notes"
  /\ LET m == NoteMatchIn[sanitizedBody]
         r == NoteRules(labeler, m)
     IN /\ match' = m
        /\ labeler' = r.l
        /\ errs' = AppendErr(errs, r.err)
  /\ ran' = Append(ran, "note")
  /\ pc' = IF syncEnabled THEN "add" ELSE "return"
  /\ UNCHANGED <<remote, body, pass, prev, syncEnabled, sanitizedBody,
                 kinds, syncErrs, removeList, removeIdx, calls, result>>

\* syncLabels up to its removal loop: the sorted add batch goes out in one
\* AddLabelsToIssue call, which the store applies (ok) or rejects
AddLabelsCall(ok) ==
  /\ pc = "add"
  /\ LET labelsToAdd == SortStrings(labeler.labelsToAdd)
     IN /\ calls' = Append(calls, Call("add", labelsToAdd, ok))
        /\ remote' = IF ok THEN remote \cup labeler.labelsToAdd ELSE remote
        /\ syncErrs' = IF ok THEN syncErrs
                       ELSE Append(syncErrs, AddError(labelsToAdd))
  /\ removeList' = SortStrings(labeler.labelsToRemove)
  /\ removeIdx' = 1
  /\ pc' = "remove"
  /\ UNCHANGED <<body, pass, prev, syncEnabled, labeler, sanitizedBody,
                 kinds, match, ran, errs, result>>

\* RemoveLabelCall with a loop that ends at the first removal the store
\* rejects
RemoveLabelCallStopOnError(ok) ==
  /\ pc = "remove"
  /\ removeIdx <= Len(removeList)
  /\ LET label == removeList[removeIdx]
     IN /\ calls' = Append(calls, Call("remove", <<label>>, ok))
        /\ remote' = IF ok THEN remote \ {label} ELSE remote
        /\ syncErrs' = IF ok THEN syncErrs
                       ELSE Append(syncErrs, RemoveError(label))
  /\ removeIdx' = IF ok THEN removeIdx + 1 ELSE Len(removeList) + 1
  /\ UNCHANGED <<body, pass, prev, pc, syncEnabled, labeler,
                 sanitizedBody, kinds, match, ran, errs, removeList, result>>

\* RemoveLabelCall with a loop that stays on a label until its removal is
\* served
RemoveLabelCallRetry(ok) ==
  /\ pc = "remove"
  /\ removeIdx <= Len(removeList)
  /\ LET label == removeList[removeIdx]
     IN /\ calls' = Append(calls, Call("remove", <<label>>, ok))
        /\ remote' = IF ok THEN remote \ {label} ELSE remote
        /\ syncErrs' = IF ok THEN syncErrs
                       ELSE Append(syncErrs, RemoveError(label))
  /\ removeIdx' = IF ok THEN removeIdx + 1 ELSE removeIdx
  /\ UNCHANGED <<body, pass, prev, pc, syncEnabled, labeler,
                 sanitizedBody, kinds, match, ran, errs, removeList, result>>

\* one round of the removal loop of syncLabels
RemoveLabelCall(ok) ==
  /\ pc = "remove"
  /\ removeIdx <= Len(removeList)
  /\ LET label == removeList[removeIdx]
     IN /\ calls' = Append(calls, Call("remove", <<label>>, ok))
        /\ remote' = IF ok THEN remote \ {label} ELSE remote
        /\ syncErrs' = IF ok THEN syncErrs
                       ELSE Append(syncErrs, RemoveError(label))
  /\ removeIdx' = removeIdx + 1
  /\ UNCHANGED <<body, pass, prev, pc, syncEnabled, labeler,
                 sanitizedBody, kinds, match, ran, errs, removeList, result>>

\* the end of syncLabels (errors.Join) when it ran, and ProcessPR's
\* return joinErrs(errs...)
Return ==
  /\ \/ pc = "return"
     \/ pc = "remove" /\ removeIdx > Len(removeList)
  /\ LET all == IF pc = "remove" THEN AppendErr(errs, ErrorsJoin(syncErrs))
                ELSE errs
     IN /\ errs' = all
        /\ result' = JoinErrs(all)
  /\ pc' = "done"
  /\ UNCHANGED <<remote, body, pass, prev, syncEnabled, labeler,
                 sanitizedBody, kinds, match, ran, syncErrs, removeList, removeIdx,
                 calls>>

\* the program is run once on the event, against a store whose calls may fail
Start(sync) == pass = 0 /\ Invoke(sync)

Next ==
  \/ \E sync \in BOOLEAN : Start(sync)
  \/ FetchLabelsOk
  \/ FetchLabelsFail
  \/ ProcessKindLabels
  \/ ProcessReleaseNotes
  \/ \E ok \in BOOLEAN : AddLabelsCall(ok)
  \/ \E ok \in BOOLEAN : RemoveLabelCall(ok)
  \/ Return

Spec == Init /\ [][Next]_vars

\* a dry run of the program on a body that tests the regular expressions
InitText ==
  /\ remote \in Snapshots
  /\ body \in TextBodies
  /\ pass = 0
  /\ prev = NoPass
  /\ pc = "idle"
  /\ syncEnabled = FALSE
  /\ labeler = NewLabeler
  /\ sanitizedBody = ""
  /\ kinds = {}
  /\ match = NoMatch
  /\ ran = <<>>
  /\ errs = <<>>
  /\ syncErrs = <<>>
  /\ removeList = <<>>
  /\ removeIdx = 1
  /\ calls = <<>>
  /\ result = NilError

NextText ==
  \/ Start(FALSE)
  \/ FetchLabelsOk
  \/ ProcessKindLabels
  \/ ProcessReleaseNotes
  \/ Return

SpecText == InitText /\ [][NextText]_vars

\* what a finished run leaves to compare the next one with
RunSummary ==
  [labeler |-> labeler, calls |-> calls, errs |-> errs, result |-> result,
   remote |-> remote]

\* the snapshots of the runs that are compared: those of Init and a PR that
\* carries the label of a kind that is not supported
TwiceSnapshots == Snapshots \cup {{"kind/install"}}

InitTwice ==
  /\ remote \in TwiceSnapshots
  /\ body \in Bodies
  /\ pass = 0
  /\ prev = NoPass
  /\ pc = "idle"
  /\ syncEnabled = FALSE
  /\ labeler = NewLabeler
  /\ sanitizedBody = ""
  /\ kinds = {}
  /\ match = NoMatch
  /\ ran = <<>>
  /\ errs = <<>>
  /\ syncErrs = <<>>
  /\ removeList = <<>>
  /\ removeIdx = 1
  /\ calls = <<>>
  /\ result = NilError

\* a second run of the program, on a fresh labeler, for the same body and a
\* PR that carries the labels the first run fetched
RunAgain ==
  /\ pc = "done"
  /\ pass = 1
  /\ pass' = 2
  /\ prev' = RunSummary
  /\ remote' = labeler.currentMap
  /\ pc' = "fetch"
  /\ syncEnabled' = TRUE
  /\ labeler' = NewLabeler
  /\ sanitizedBody' = ""
  /\ kinds' = {}
  /\ match' = NoMatch
  /\ ran' = <<>>
  /\ errs' = <<>>
  /\ syncErrs' = <<>>
  /\ removeList' = <<>>
  /\ removeIdx' = 1
  /\ calls' = <<>>
  /\ result' = NilError
  /\ UNCHANGED body

NextTwice ==
  \/ Start(TRUE)
  \/ RunAgain
  \/ FetchLabelsOk
  \/ ProcessKindLabels
  \/ ProcessReleaseNotes
  \/ AddLabelsCall(TRUE)
  \/ RemoveLabelCall(TRUE)
  \/ Return

SpecTwice == InitTwice /\ [][NextTwice]_vars

\* ProcessPR called once more on the labeler of the call that returned: New
\* is not called again, so labelsToAdd and labelsToRemove are those the
\* earlier calls left, and only the variables of the call start anew
ProcessPRAgain ==
  /\ pc = "done"
  /\ pass < MaxPasses
  /\ pass' = pass + 1
  /\ prev' = PassSummary
  /\ pc' = "fetch"
  /\ syncEnabled' = TRUE
  /\ sanitizedBody' = ""
  /\ kinds' = {}
  /\ match' = NoMatch
  /\ ran' = <<>>
  /\ errs' = <<>>
  /\ syncErrs' = <<>>
  /\ removeList' = <<>>
  /\ removeIdx' = 1
  /\ calls' = <<>>
  /\ result' = NilError
  /\ UNCHANGED <<remote, body, labeler>>

NextReuse ==
  \/ Start(TRUE)
  \/ ProcessPRAgain
  \/ FetchLabelsOk
  \/ ProcessKindLabels
  \/ ProcessReleaseNotes
  \/ AddLabelsCall(TRUE)
  \/ RemoveLabelCall(TRUE)
  \/ Return

SpecReuse == Init /\ [][NextReuse]_vars

\* the program is run again and again on the same PR, with syncing enabled
\* and against a store that serves every call
NextRerun ==
  \/ Invoke(TRUE)
  \/ FetchLabelsOk
  \/ ProcessKindLabels
  \/ ProcessReleaseNotes
  \/ AddLabelsCall(TRUE)
  \/ RemoveLabelCall(TRUE)
  \/ Return

SpecRerun == Init /\ [][NextRerun]_vars

\* ------------------------------------------------------------------------
\* Properties
\* ------------------------------------------------------------------------

\* both validators have run in this invocation
BothRan == ran = <<"kind", "note">>

\* the labels of a set that start with "kind/"
KindPart(S) == {x \in S : HasPrefix(x, "kind/")}

\* C1: once both validators have run in a pass on a freshly constructed
\* labeler, no label is in both labelsToAdd and labelsToRemove.
C1_Exclusive ==
  BothRan => labeler.labelsToAdd \cap labeler.labelsToRemove = {}

\* a pass that queued additions and removals
C1_Witness ==
  /\ BothRan
  /\ labeler.labelsToAdd # {}
  /\ labeler.labelsToRemove # {}
  /\ ReleaseNoteLabel \in labeler.currentMap

\* C2: when a pass synced with every remote call served, the next pass on
\* the same body, which fetches (S minus toRemove) union toAdd, queues
\* nothing: labelsToAdd and labelsToRemove are empty after its validators,
\* also when the body fails validation.
C2_Converged ==
  (pass >= 2 /\ prev.clean /\ BothRan)
    => labeler.labelsToAdd = {} /\ labeler.labelsToRemove = {}

\* a second pass that ends after a first one that changed labels, on a body
\* that fails validation
C2_Witness ==
  /\ pass = 2
  /\ pc = "done"
  /\ prev.clean
  /\ prev.changed
  /\ errs # <<>>
  /\ remote = labeler.currentMap

\* C3: when kind validation succeeds, the kind/ labels of
\* (snapshot minus toRemove) union toAdd are exactly the labels kind/k of the
\* canonical kinds k, and they are the kind/ labels of the PR once a pass has
\* synced with every remote call served.
C3_KindLabelsExact ==
  (BothRan /\ kinds # {} /\ kinds \subseteq SupportedKinds)
    => /\ KindPart(Desired(labeler)) = {KindLabel(k) : k \in kinds}
       /\ (pc = "done" /\ syncEnabled /\ AllCallsOk)
            => KindPart(remote) = {KindLabel(k) : k \in kinds}

\* two declared kinds, one of them the rewriting of a deprecated kind whose
\* label went away
C3_Witness ==
  /\ pc = "done"
  /\ syncEnabled
  /\ AllCallsOk
  /\ kinds = {"fix", "feature"}
  /\ labeler.currentMap = {KindLabel("bug_fix")}
  /\ KindPart(remote) = {KindLabel("fix"), KindLabel("feature")}

\* the release-note label the body calls for: the invalid label when the
\* block is absent or blank, release-note-none when its trimmed text is NONE
\* in any letter case, release-note otherwise
ExpectedNoteLabel ==
  LET entry == TrimSpace(match.capture)
  IN IF ~match.found \/ entry = "" THEN InvalidReleaseNoteLabel
     ELSE IF ToLower(entry) = "none" THEN ReleaseNoteNoneLabel
     ELSE ReleaseNoteLabel

NoteFamily == {InvalidReleaseNoteLabel, ReleaseNoteNoneLabel, ReleaseNoteLabel}

\* C4: after the validators, (snapshot minus toRemove) union toAdd holds
\* exactly one of do-not-merge/release-note-invalid, release-note-none and
\* release-note, namely the one the release-note block of the body calls for.
C4_OneNoteLabel ==
  BothRan => Desired(labeler) \cap NoteFamily = {ExpectedNoteLabel}

\* a PR that carried another label of the family and whose note is NONE
C4_Witness ==
  /\ BothRan
  /\ labeler.currentMap = {ReleaseNoteLabel}
  /\ ExpectedNoteLabel = ReleaseNoteNoneLabel
  /\ Desired(labeler) \cap NoteFamily = {ReleaseNoteNoneLabel}

\* C5: every label handed to a removeLabel call is in the snapshot fetched
\* at the start of the pass and every label of the add batch is not:
\* labelsToRemove is a subset of the snapshot, labelsToAdd is disjoint from it.
C5_DeltasAgainstSnapshot ==
  /\ labeler.labelsToRemove \subseteq labeler.currentMap
  /\ labeler.labelsToAdd \cap labeler.currentMap = {}
  /\ \A i \in 1..Len(calls) :
       /\ calls[i].op = "remove" => calls[i].arg[1] \in labeler.currentMap
       /\ calls[i].op = "add" =>
            \A j \in 1..Len(calls[i].arg) :
              calls[i].arg[j] \notin labeler.currentMap

\* a pass that sent an add batch and a removal
C5_Witness ==
  /\ pc = "done"
  /\ \E i \in 1..Len(calls) : calls[i].op = "remove"
  /\ \E i \in 1..Len(calls) : calls[i].op = "add" /\ Len(calls[i].arg) = 2

\* the snapshot was fetched and the pass has returned
Finished == pc = "done" /\ ran # <<>>

\* kind validation fails on the canonical kinds of the pass
KindFailed == kinds = {} \/ ~(kinds \subseteq SupportedKinds)

\* C6: for a body whose sanitized text has no /kind directive, ProcessPR
\* returns an error containing "no /kind", do-not-merge/kind-invalid is in
\* labelsToAdd exactly when the snapshot lacks it, and labelsToAdd has no
\* kind/ label.
C6_NoKindDeclared ==
  (Finished /\ KindMatchesIn[sanitizedBody] = <<>>)
    => /\ ~result.isNil
       /\ Contains(result.text, "no /kind")
       /\ InvalidKindLabel \in labeler.labelsToAdd
            <=> InvalidKindLabel \notin labeler.currentMap
       /\ KindPart(labeler.labelsToAdd) = {}

\* the body of TestProcessPR_NoKindSupplied on a PR without labels
C6_Witness ==
  /\ Finished
  /\ body = NoteBlock("\nFixed it\n")
  /\ labeler.currentMap = {}
  /\ labeler.labelsToAdd = {InvalidKindLabel, ReleaseNoteLabel}
  /\ Contains(result.text, "no /kind")

\* the kinds the returned error names as invalid
NamedInvalid ==
  LET at == FindFrom(result.text, 1, "invalid /kind ")
  IN {k \in kinds \cup SupportedKinds \cup DOMAIN DeprecatedKindMap :
        at > 0 /\ MatchAt(result.text, at + Len("invalid /kind "), Quote(k))}

\* C7: when a canonical kind is unsupported, ProcessPR returns an error
\* containing "invalid /kind" that names exactly one kind, a canonical kind
\* that is not supported, whichever the loop met first, and
\* do-not-merge/kind-invalid is in labelsToAdd unless the snapshot has it.
C7_InvalidKindNamed ==
  (Finished /\ ~(kinds \subseteq SupportedKinds))
    => /\ ~result.isNil
       /\ Contains(result.text, "invalid /kind")
       /\ Cardinality(NamedInvalid) = 1
       /\ NamedInvalid \subseteq (kinds \ SupportedKinds)
       /\ InvalidKindLabel \in labeler.labelsToAdd
            <=> InvalidKindLabel \notin labeler.currentMap

\* a supported kind next to an unsupported one, and the error names the
\* unsupported one
C7_Witness ==
  /\ Finished
  /\ kinds = {"feature", "install"}
  /\ NamedInvalid = {"install"}
  /\ InvalidKindLabel \in labeler.labelsToAdd

\* C8: the validators do not stop each other: with a failing kind and a
\* valid note labelsToAdd still gets release-note (from an empty snapshot it
\* is exactly {do-not-merge/kind-invalid, release-note}), with valid kinds
\* and a failing note labelsToAdd still gets the kind labels, the deltas are
\* applied when the pass syncs, and when both fail the returned error
\* contains both messages.
C8_ValidatorsIndependent ==
  BothRan =>
    /\ (KindFailed /\ ExpectedNoteLabel = ReleaseNoteLabel) =>
         /\ ReleaseNoteLabel \in Desired(labeler)
         /\ labeler.currentMap = {} =>
              labeler.labelsToAdd = {InvalidKindLabel, ReleaseNoteLabel}
    /\ (~KindFailed /\ ExpectedNoteLabel = InvalidReleaseNoteLabel) =>
         {KindLabel(k) : k \in kinds} \ labeler.currentMap
           \subseteq labeler.labelsToAdd
    /\ (pc = "done" /\ syncEnabled /\ AllCallsOk) => remote = Desired(labeler)
    /\ (pc = "done" /\ KindFailed
          /\ ExpectedNoteLabel = InvalidReleaseNoteLabel) =>
         /\ Contains(result.text,
                     IF kinds = {} THEN "no /kind" ELSE "invalid /kind")
         /\ Contains(result.text, "missing or empty")

\* an unsupported kind and a blank note: both messages come back and both
\* invalid labels are on the PR
C8_Witness ==
  /\ pc = "done"
  /\ BothRan
  /\ "banana" \in kinds
  /\ ExpectedNoteLabel = InvalidReleaseNoteLabel
  /\ Contains(result.text, "invalid /kind")
  /\ Contains(result.text, "missing or empty")
  /\ labeler.currentMap = {}
  /\ remote = {InvalidKindLabel, InvalidReleaseNoteLabel}

\* the labels the kind validator may queue, and those the release-note
\* validator may queue
KindFamilyOnly(S) == \A x \in S : x = InvalidKindLabel \/ HasPrefix(x, "kind/")

NoteFamilyOnly(S) == S \subseteq NoteFamily \cup {DeprecatedReleaseNoteLabel}

\* C9: running the release-note validator first and the kind validator
\* second on the fetched snapshot gives the labelsToAdd and labelsToRemove of
\* the pass; the kind validator queues only do-not-merge/kind-invalid and
\* kind/ labels, the release-note validator only the release-note labels.
C9_OrderIndependent ==
  BothRan =>
    LET fresh == Labeler(labeler.currentMap, {}, {})
        note == NoteRules(fresh, match).l
        stops == IF kinds \subseteq SupportedKinds THEN {""}
                 ELSE kinds \ SupportedKinds
    IN \A k \in stops :
         LET kind == VerifyAndSyncKinds(fresh, kinds, k, KeyOrder(1)).l
             swapped == VerifyAndSyncKinds(note, kinds, k, KeyOrder(1)).l
         IN /\ swapped.labelsToAdd = labeler.labelsToAdd
            /\ swapped.labelsToRemove = labeler.labelsToRemove
            /\ KindFamilyOnly(kind.labelsToAdd \cup kind.labelsToRemove)
            /\ NoteFamilyOnly(note.labelsToAdd \cup note.labelsToRemove)

\* a pass in which both validators queued labels
C9_Witness ==
  /\ BothRan
  /\ kinds = {"fix"}
  /\ labeler.currentMap = {KindLabel("bug_fix")}
  /\ labeler.labelsToAdd = {KindLabel("fix"), ReleaseNoteLabel}
  /\ labeler.labelsToRemove = {KindLabel("bug_fix")}

\* C10: when the listLabels call fails, ProcessPR returns that failure at
\* once: no validator has run, labelsToAdd and labelsToRemove are empty and
\* the failed listLabels call is the only remote call.
C10_FetchFailureAborts ==
  (pc = "done" /\ ~calls[1].ok) =>
    /\ result = ErrorOf(ListError)
    /\ Contains(result.text, "failed to list labels")
    /\ ran = <<>>
    /\ labeler = NewLabeler
    /\ calls = <<Call("list", <<>>, FALSE)>>

\* the fetch failed on a PR with labels and a body that declares a kind
C10_Witness ==
  /\ pc = "done"
  /\ ~calls[1].ok
  /\ syncEnabled
  /\ remote = {KindLabel("bug_fix")}
  /\ body = BodyOf(<<"/kind feature">>, NoteBlock("\nFixed it\n"))

\* C11: with syncLabels false, the listLabels call is the only remote call
\* of the pass and the labels of the PR stay as fetched, while both validators
\* run and ProcessPR returns their errors: the kind message when kind
\* validation fails, the release-note message when the note is missing or
\* blank, and nil when neither fails.
C11_DryRun ==
  (pass >= 1 /\ ~syncEnabled) =>
    /\ \A i \in 1..Len(calls) : calls[i].op = "list"
    /\ Len(calls) <= 1
    /\ (pc = "done" /\ calls[1].ok) =>
         /\ BothRan
         /\ remote = labeler.currentMap
         /\ KindFailed =>
              Contains(result.text,
                       IF kinds = {} THEN "no /kind" ELSE "invalid /kind")
         /\ ExpectedNoteLabel = InvalidReleaseNoteLabel =>
              Contains(result.text, "missing or empty")
         /\ result.isNil <=>
              (~KindFailed /\ ExpectedNoteLabel # InvalidReleaseNoteLabel)

\* a dry run on a body that fails both validations: labels are queued, both
\* messages come back and the PR keeps its labels
C11_Witness ==
  /\ pc = "done"
  /\ ~syncEnabled
  /\ BothRan
  /\ calls = <<Call("list", <<>>, TRUE)>>
  /\ labeler.labelsToAdd = {InvalidKindLabel, InvalidReleaseNoteLabel}
  /\ labeler.labelsToRemove = {ReleaseNoteLabel}
  /\ remote = {ReleaseNoteLabel}
  /\ Contains(result.text, "invalid /kind")
  /\ Contains(result.text, "missing or empty")

\* the positions of the remote calls of one operation
CallsOf(op) == {i \in 1..Len(calls) : calls[i].op = op}

\* the labels a call carried
ArgSet(c) == {c.arg[j] : j \in 1..Len(c.arg)}

\* C12: in a pass with syncLabels true, served or not, no label is handed
\* to removeLabel twice and addLabels is called at most once; when the pass
\* has returned after a successful fetch, the calls are the listLabels call,
\* one addLabels call whose batch is labelsToAdd (the empty batch included)
\* and one removeLabel call for each label of labelsToRemove.
C12_OneCallEach ==
  (pass >= 1 /\ syncEnabled) =>
    /\ Cardinality(CallsOf("add")) <= 1
    /\ \A i, j \in CallsOf("remove") : calls[i].arg = calls[j].arg => i = j
    /\ (pc = "done" /\ calls[1].ok) =>
         /\ Len(calls) = 2 + Cardinality(labeler.labelsToRemove)
         /\ calls[2].op = "add"
         /\ ArgSet(calls[2]) = labeler.labelsToAdd
         /\ CallsOf("remove") = 3..Len(calls)
         /\ {calls[i].arg : i \in CallsOf("remove")}
              = {<<x>> : x \in labeler.labelsToRemove}

\* nothing to add: the empty batch is sent all the same, once, though the
\* store rejects it
C12_Witness ==
  /\ pc = "done"
  /\ syncEnabled
  /\ labeler.currentMap = {KindLabel("feature"), ReleaseNoteLabel}
  /\ labeler.labelsToAdd = {}
  /\ calls = <<Call("list", <<>>, TRUE), Call("add", <<>>, FALSE)>>

\* the labels whose removeLabel call was served, and those whose call failed
Removed == {calls[i].arg[1] : i \in {j \in CallsOf("remove") : calls[j].ok}}

RemoveFailed == {calls[i].arg[1] : i \in {j \in CallsOf("remove") : ~calls[j].ok}}

\* C13: when a syncing pass has returned after a successful fetch, whichever
\* of its add and remove calls failed, every label of labelsToRemove was
\* handed to a removeLabel call, the PR carries the fetched labels plus the
\* batch if the add call was served minus the labels whose removal was
\* served, and the returned error holds "failed to remove label" with the
\* quoted name of each label whose removal failed.
C13_PartialFailure ==
  (pc = "done" /\ syncEnabled /\ calls[1].ok) =>
    /\ CallsOf("add") = {2}
    /\ Removed \cup RemoveFailed = labeler.labelsToRemove
    /\ remote = (labeler.currentMap
                  \cup (IF calls[2].ok THEN labeler.labelsToAdd ELSE {}))
                 \ Removed
    /\ \A x \in RemoveFailed :
         Contains(result.text, "failed to remove label " \o Quote(x))

\* the add call and the first of two removals fail; the second removal is
\* issued and applied all the same
C13_Witness ==
  /\ pc = "done"
  /\ syncEnabled
  /\ labeler.currentMap = {KindLabel("bug_fix"), DeprecatedReleaseNoteLabel}
  /\ Len(calls) = 4
  /\ ~calls[2].ok
  /\ calls[3] = Call("remove", <<KindLabel("bug_fix")>>, FALSE)
  /\ calls[4] = Call("remove", <<DeprecatedReleaseNoteLabel>>, TRUE)
  /\ remote = {KindLabel("bug_fix")}
  /\ Contains(result.text, "failed to remove label " \o Quote(KindLabel("bug_fix")))

\* C14: when a pass has returned, its error is nil exactly when the fetch
\* succeeded, the canonical kinds are not empty and all supported, the
\* release-note block is there with text that is not blank (NONE included),
\* and every add and remove call of the pass, if it synced, was served.
C14_NilIffAllGood ==
  pc = "done" =>
    (result.isNil <=>
       /\ calls[1].ok
       /\ kinds # {}
       /\ kinds \subseteq SupportedKinds
       /\ match.found
       /\ TrimSpace(match.capture) # ""
       /\ \A i \in CallsOf("add") \cup CallsOf("remove") : calls[i].ok)

\* a migration pass that synced two additions and two removals and returned
\* nil
C14_Witness ==
  /\ pc = "done"
  /\ result.isNil
  /\ syncEnabled
  /\ Len(calls) = 4
  /\ kinds = {"fix"}
  /\ remote = {KindLabel("fix"), ReleaseNoteLabel}

\* C15: the listLabels call is the first remote call of a pass and the only
\* one of its kind, an addLabels or removeLabel call is issued only after
\* the fetch succeeded and both validators ran, and a pass with syncLabels
\* true whose fetch succeeded does not return before it has called
\* addLabels, whatever the validators returned.
C15_SyncAlwaysRuns ==
  /\ calls # <<>> => CallsOf("list") = {1}
  /\ CallsOf("add") \cup CallsOf("remove") # {} => (calls[1].ok /\ BothRan)
  /\ (pc = "done" /\ syncEnabled /\ calls[1].ok) => CallsOf("add") = {2}

\* both validators failed and the pass synced all the same
C15_Witness ==
  /\ pc = "done"
  /\ syncEnabled
  /\ Len(errs) = 2
  /\ KindFailed
  /\ ExpectedNoteLabel = InvalidReleaseNoteLabel
  /\ AllCallsOk
  /\ Len(calls) = 3
  /\ remote = {InvalidKindLabel, InvalidReleaseNoteLabel}

\* the positions of a text where a line starts
LineStarts(text) ==
  {1} \cup {i + 1 : i \in {j \in 1..Len(text) : Char(text, j) = "\n"}}

\* msg stands in the text at one of the positions starts, bare or behind
\* the list mark "- "
ListedAt(text, starts, msg) ==
  \E i \in starts : MatchAt(text, i, msg) \/ MatchAt(text, i, "- " \o msg)

\* the messages kind validation may give for a set of canonical kinds
KindFailures(ks) ==
  IF ks = {}
  THEN {NoKindError(order) : order \in KeyOrders}
  ELSE {InvalidKindError(k, order) :
          k \in ks \ SupportedKinds, order \in KeyOrders}

\* the message of a remote call the store rejected
CallFailure(c) ==
  IF c.op = "add" THEN AddError(c.arg) ELSE RemoveError(c.arg[1])

\* C16: when a pass whose fetch succeeded has returned, the text of its
\* error contains the whole message of kind validation if that failed, the
\* whole message of release-note validation if that failed, and the whole
\* message of every addLabels and removeLabel call that failed; each message
\* stands at the start of a line of the text, bare or behind "- ".
C16_EveryFailureListed ==
  (pc = "done" /\ calls[1].ok) =>
    \E starts \in {LineStarts(result.text)} :
      /\ KindFailed =>
           \E msg \in KindFailures(kinds) : ListedAt(result.text, starts, msg)
      /\ ExpectedNoteLabel = InvalidReleaseNoteLabel =>
           ListedAt(result.text, starts,
                    IF match.found THEN EmptyBlockError ELSE MissingBlockError)
      /\ \A i \in 2..Len(calls) :
           ~calls[i].ok => ListedAt(result.text, starts, CallFailure(calls[i]))

\* four failures in one pass: both validations, the add call and a removal
C16_Witness ==
  /\ pc = "done"
  /\ KindFailed
  /\ ExpectedNoteLabel = InvalidReleaseNoteLabel
  /\ Len(calls) = 3
  /\ ~calls[2].ok
  /\ calls[3] = Call("remove", <<ReleaseNoteLabel>>, FALSE)
  /\ Len(errs) = 3
  /\ Contains(result.text, CallFailure(calls[3]))
  /\ Contains(result.text, CallFailure(calls[2]))

\* C17: the batch of every addLabels call is in strictly ascending byte
\* order, so without duplicates, every removeLabel call carries one label,
\* and the labels of successive removeLabel calls are in strictly ascending
\* byte order.
C17_SortedCalls ==
  /\ \A i \in CallsOf("add") :
       \A j \in 1..(Len(calls[i].arg) - 1) :
         StrLess(calls[i].arg[j], calls[i].arg[j + 1])
  /\ \A i \in CallsOf("remove") : Len(calls[i].arg) = 1
  /\ \A i, j \in CallsOf("remove") :
       i < j => StrLess(calls[i].arg[1], calls[j].arg[1])

\* the migration of a PR with the two deprecated labels: a batch of two and
\* two removals, each in order
C17_Witness ==
  /\ pc = "done"
  /\ Len(calls) = 4
  /\ calls[2].arg = <<"kind/fix", "release-note">>
  /\ calls[3].arg = <<"kind/bug_fix">>
  /\ calls[4].arg = <<"release-note-needed">>

\* C18: install and bump are supported kinds: when a pass has returned
\* whose body declares install alone or bump alone and carries a valid note,
\* with every remote call served, its error is nil, labelsToAdd holds
\* kind/install (or kind/bump) unless the snapshot has it, and labelsToAdd does
\* not hold do-not-merge/kind-invalid.
C18_InstallBumpSupported ==
  (/\ pc = "done"
   /\ AllCallsOk
   /\ kinds \in {{"install"}, {"bump"}}
   /\ ExpectedNoteLabel # InvalidReleaseNoteLabel) =>
    /\ result.isNil
    /\ {KindLabel(k) : k \in kinds} \ labeler.currentMap
         \subseteq labeler.labelsToAdd
    /\ InvalidKindLabel \notin labeler.labelsToAdd

\* the kinds the sanitized body declares, in lower case, before any rewriting
DeclaredKinds == DeclaredIn[sanitizedBody]

\* C19: after the validators, each declared deprecated kind (new_feature,
\* bug_fix) has given its replacement (feature, fix) to the canonical kinds
\* and is not one of them, and no kind/ label of a deprecated kind is in
\* labelsToAdd; when the body declares deprecated and supported kinds only,
\* kind validation passes, the kind/ label of the replacement is in
\* labelsToAdd exactly when the snapshot lacks it, and the kind/ label of the
\* deprecated kind is in labelsToRemove when the snapshot has it.
C19_DeprecatedRewritten ==
  BothRan =>
    \A d \in DeclaredKinds \cap DOMAIN DeprecatedKindMap :
      LET new == IF d = "new_feature" THEN "feature" ELSE "fix"
      IN /\ new \in kinds
         /\ d \notin kinds
         /\ \A x \in DOMAIN DeprecatedKindMap :
              KindLabel(x) \notin labeler.labelsToAdd
         /\ DeclaredKinds \subseteq SupportedKinds \cup DOMAIN DeprecatedKindMap =>
              /\ InvalidKindLabel \notin labeler.labelsToAdd
              /\ \A e \in 1..Len(errs) :
                   /\ ~Contains(errs[e], "no /kind")
                   /\ ~Contains(errs[e], "invalid /kind")
              /\ KindLabel(new) \in labeler.labelsToAdd
                   <=> KindLabel(new) \notin labeler.currentMap
              /\ KindLabel(d) \in labeler.currentMap =>
                   KindLabel(d) \in labeler.labelsToRemove

\* a body that declares bug_fix, in capitals, on a PR that carries kind/bug_fix
C19_Witness ==
  /\ BothRan
  /\ DeclaredKinds = {"bug_fix"}
  /\ kinds = {"fix"}
  /\ KindLabel("bug_fix") \in labeler.currentMap
  /\ KindLabel("fix") \in labeler.labelsToAdd
  /\ KindLabel("bug_fix") \in labeler.labelsToRemove
  /\ errs = <<>>

\* C20: after the validators, when the canonical kinds are not empty and
\* all supported, do-not-merge/kind-invalid is in labelsToRemove if the
\* snapshot has it, and in neither labelsToAdd nor labelsToRemove if the
\* snapshot lacks it.
C20_KindInvalidCleared ==
  (BothRan /\ kinds # {} /\ kinds \subseteq SupportedKinds) =>
    /\ InvalidKindLabel \notin labeler.labelsToAdd
    /\ InvalidKindLabel \in labeler.labelsToRemove
         <=> InvalidKindLabel \in labeler.currentMap

\* a PR marked kind-invalid whose body now declares a supported kind; the
\* mark is taken off the PR
C20_Witness ==
  /\ pc = "done"
  /\ labeler.currentMap = {InvalidKindLabel}
  /\ kinds = {"feature"}
  /\ InvalidKindLabel \in labeler.labelsToRemove
  /\ InvalidKindLabel \notin remote

\* C21: release-note-needed is never in labelsToAdd, and once the
\* release-note validator has run it is in labelsToRemove exactly when the
\* snapshot has it, whether the validator accepted the body or not.
C21_NeededLabelRemoved ==
  /\ DeprecatedReleaseNoteLabel \notin labeler.labelsToAdd
  /\ BothRan =>
       (DeprecatedReleaseNoteLabel \in labeler.labelsToRemove
          <=> DeprecatedReleaseNoteLabel \in labeler.currentMap)

\* a PR that carries release-note-needed and whose body has no release-note
\* block: the label is taken off though validation fails
C21_Witness ==
  /\ pc = "done"
  /\ ~match.found
  /\ labeler.currentMap = {DeprecatedReleaseNoteLabel}
  /\ DeprecatedReleaseNoteLabel \in labeler.labelsToRemove
  /\ ~result.isNil
  /\ remote = {InvalidKindLabel, InvalidReleaseNoteLabel}

\* C22: a body without a release-note block and a body whose block holds
\* white space only get the same treatment: do-not-merge/release-note-invalid
\* is in labelsToAdd exactly when the snapshot lacks it, release-note and
\* release-note-none are in labelsToRemove exactly when the snapshot has
\* them and never in labelsToAdd, the kind/ label of a canonical kind that
\* the snapshot has is in neither set, and the returned error contains
\* "missing or empty".
C22_AbsentLikeBlank ==
  (BothRan /\ (~match.found \/ TrimSpace(match.capture) = "")) =>
    /\ InvalidReleaseNoteLabel \in labeler.labelsToAdd
         <=> InvalidReleaseNoteLabel \notin labeler.currentMap
    /\ \A x \in {ReleaseNoteLabel, ReleaseNoteNoneLabel} :
         /\ x \notin labeler.labelsToAdd
         /\ x \in labeler.labelsToRemove <=> x \in labeler.currentMap
    /\ \A k \in kinds :
         KindLabel(k) \in labeler.currentMap =>
           KindLabel(k) \notin labeler.labelsToAdd \cup labeler.labelsToRemove
    /\ pc = "done" => Contains(result.text, "missing or empty")

\* a block that holds nothing once the comment in it is stripped, on a PR
\* labelled release-note-none
C22_Witness ==
  /\ pc = "done"
  /\ match.found
  /\ TrimSpace(match.capture) = ""
  /\ labeler.currentMap = {ReleaseNoteNoneLabel}
  /\ labeler.labelsToRemove = {ReleaseNoteNoneLabel}
  /\ InvalidReleaseNoteLabel \in labeler.labelsToAdd
  /\ Contains(result.text, "missing or empty")

\* C25: once the kind validator has run and kind validation failed (no
\* canonical kind, or one that is not supported, next to supported ones or
\* not), labelsToAdd and labelsToRemove hold no kind/ label and
\* labelsToRemove does not hold do-not-merge/kind-invalid.
C25_NoKindLabelsOnFailure ==
  (ran # <<>> /\ KindFailed) =>
    /\ KindPart(labeler.labelsToAdd \cup labeler.labelsToRemove) = {}
    /\ InvalidKindLabel \notin labeler.labelsToRemove

\* a supported kind declared next to an unsupported one on a PR with a stale
\* kind label: no kind/feature is added and kind/bug_fix stays
C25_Witness ==
  /\ pc = "done"
  /\ syncEnabled
  /\ AllCallsOk
  /\ kinds = {"feature", "banana"}
  /\ labeler.currentMap = {KindLabel("bug_fix")}
  /\ KindPart(remote) = {KindLabel("bug_fix")}

\* C26: after the validators, do-not-merge/kind-invalid is in (snapshot
\* minus labelsToRemove) union labelsToAdd exactly when kind validation
\* failed, and after a pass that synced with every remote call served the PR
\* carries it exactly when kind validation failed.
C26_KindInvalidIffFailed ==
  BothRan =>
    /\ InvalidKindLabel \in Desired(labeler) <=> KindFailed
    /\ (pc = "done" /\ syncEnabled /\ AllCallsOk) =>
         (InvalidKindLabel \in remote <=> KindFailed)

\* a PR marked kind-invalid whose body still declares an unsupported kind:
\* the mark stays without being sent again
C26_Witness ==
  /\ pc = "done"
  /\ syncEnabled
  /\ AllCallsOk
  /\ kinds = {"banana"}
  /\ labeler.currentMap = {InvalidKindLabel}
  /\ InvalidKindLabel \notin labeler.labelsToAdd
  /\ InvalidKindLabel \in remote

\* C27: no deprecated kind is among the canonical kinds, and when kind
\* validation succeeds every label kind/new_feature or kind/bug_fix of the
\* snapshot is in labelsToRemove, whether its replacement was declared or not.
C27_DeprecatedLabelsRemoved ==
  /\ kinds \cap DOMAIN DeprecatedKindMap = {}
  /\ (BothRan /\ kinds # {} /\ kinds \subseteq SupportedKinds) =>
       \A d \in DOMAIN DeprecatedKindMap :
         KindLabel(d) \in labeler.currentMap =>
           KindLabel(d) \in labeler.labelsToRemove

\* kind/bug_fix on a PR whose body declares feature and not fix
C27_Witness ==
  /\ BothRan
  /\ kinds = {"feature"}
  /\ labeler.currentMap = {KindLabel("bug_fix")}
  /\ labeler.labelsToRemove = {KindLabel("bug_fix")}
  /\ KindLabel("feature") \in labeler.labelsToAdd

\* the labels of the model the program has no business with
Unrelated ==
  {x \in LabelUniverse :
     /\ x \notin {InvalidKindLabel, InvalidReleaseNoteLabel, ReleaseNoteLabel,
                   ReleaseNoteNoneLabel, DeprecatedReleaseNoteLabel}
     /\ ~HasPrefix(x, "kind/")}

\* C28: a label that is none of the five labels of the program and does not
\* start with "kind/" is never in labelsToAdd or labelsToRemove, no remote
\* call carries it, and a PR that had it when fetched keeps it.
C28_UnrelatedUntouched ==
  \A x \in Unrelated :
    /\ x \notin labeler.labelsToAdd \cup labeler.labelsToRemove
    /\ \A i \in 1..Len(calls) : x \notin ArgSet(calls[i])
    /\ x \in labeler.currentMap => x \in remote

\* a PR labelled area/docs goes through a pass that adds labels
C28_Witness ==
  /\ pc = "done"
  /\ syncEnabled
  /\ AllCallsOk
  /\ labeler.currentMap = {"area/docs"}
  /\ kinds = {"feature"}
  /\ remote = {"area/docs", KindLabel("feature"), ReleaseNoteLabel}

\* what is known of the body under test
TextCaseNow == CaseOf[body]

\* the labeler as ProcessPR has it once the labels are fetched
Fetched == [NewLabeler EXCEPT !.currentMap = remote]

\* C23: a /kind directive or a release-note block that lies wholly inside an
\* HTML comment contributes nothing: the text the validators read is the body
\* with its comment spans deleted, no kind named only in a comment is among
\* the kinds or gets its label queued, a block inside a comment is not the
\* block found, and the deltas and the errors are those the validators compute
\* from the body with the comment spans deleted.
C23_CommentedTextIgnored ==
  (body \in TextBodies /\ pc \notin {"idle", "fetch"}) =>
    /\ sanitizedBody = TextCaseNow.plain
    /\ BothRan =>
         /\ kinds \cap TextCaseNow.hidden = {}
         /\ \A h \in TextCaseNow.hidden : KindLabel(h) \notin labeler.labelsToAdd
         /\ match.found <=> TextCaseNow.note # ""
         /\ \E k \in UnsupportedOf(ExtractKinds(TextCaseNow.plain)) \cup {""},
               order \in KeyOrders :
              LET v == VerifyAndSyncKinds(Fetched, ExtractKinds(TextCaseNow.plain),
                                          k, order)
                  r == NoteRules(v.l, NoteMatch(TextCaseNow.plain))
              IN /\ labeler = r.l
                 /\ errs = AppendErr(AppendErr(<<>>, v.err), r.err)

\* a live /kind feature, then a comment over several lines that holds a /kind
\* line and a release-note block, and no block outside it
C23_Witness ==
  /\ BothRan
  /\ body \in TextBodies
  /\ TextCaseNow.hidden = {"documentation"}
  /\ TextCaseNow.note = ""
  /\ kinds = {"feature"}
  /\ ~match.found
  /\ labeler.currentMap = {}
  /\ labeler.labelsToAdd = {KindLabel("feature"), InvalidReleaseNoteLabel}

\* C24 as the specification words it: a line with white space before /kind
\* contributes its token, lowercased, as the line without the white space does.
C24_LeadingSpaceAccepted ==
  (body \in TextBodies /\ BothRan) =>
    kinds = TextCaseNow.atStart \cup TextCaseNow.indented

\* C24: a line contributes its token, lowercased, only when /kind stands at
\* the very start of the line; /kind behind leading white space or behind
\* other text on the line contributes nothing.
C24_OnlyAtLineStart ==
  (body \in TextBodies /\ BothRan) =>
    /\ kinds = TextCaseNow.atStart
    /\ \A k \in TextCaseNow.indented \cup {"flake"} :
         KindLabel(k) \notin labeler.labelsToAdd

\* "/kind feature" at a line start and "  /Kind Cleanup" behind two spaces
C24_Witness ==
  /\ BothRan
  /\ body \in TextBodies
  /\ TextCaseNow.atStart = {"feature"}
  /\ TextCaseNow.indented = {"cleanup"}
  /\ kinds = {"feature"}
  /\ labeler.currentMap = {}
  /\ KindLabel("feature") \in labeler.labelsToAdd

\* both runs of the comparison have returned
TwoRuns == pc = "done" /\ pass = 2

\* the second run computed the deltas of the first and issued its calls
SameDeltasAndCalls ==
  /\ labeler = prev.labeler
  /\ Len(calls) = Len(prev.calls)
  /\ \A i \in 1..Len(calls) :
       calls[i].op = prev.calls[i].op /\ calls[i].arg = prev.calls[i].arg
  /\ remote = prev.remote
  /\ result.isNil = prev.result.isNil
  /\ Len(errs) = Len(prev.errs)

\* C29 as the specification words it: two runs on fresh labelers with the
\* same body and snapshot compute the same deltas and issue the same calls,
\* and their error texts differ at most in the kind that is named.
C29_OnlyNamedKindDiffers ==
  TwoRuns =>
    /\ SameDeltasAndCalls
    /\ \A e \in 1..Len(errs) :
         \/ errs[e] = prev.errs[e]
         \/ \E order \in KeyOrders, k1 \in UnsupportedOf(kinds),
               k2 \in UnsupportedOf(kinds) :
              /\ errs[e] = InvalidKindError(k1, order)
              /\ prev.errs[e] = InvalidKindError(k2, order)

\* C29: two runs on fresh labelers with the same body and snapshot compute
\* the same labelsToAdd and labelsToRemove, issue the same remote calls and
\* leave the same labels on the PR; their errors differ at most in the
\* message of kind validation, in the unsupported kind it names and in the
\* order in which it lists the supported kinds.
C29_SameDeltasTwice ==
  TwoRuns =>
    /\ SameDeltasAndCalls
    /\ \A e \in 1..Len(errs) :
         \/ errs[e] = prev.errs[e]
         \/ /\ errs[e] \in KindFailures(kinds)
            /\ prev.errs[e] \in KindFailures(kinds)

\* two unsupported kinds: one run names install, the other banana, and they
\* list the supported kinds in different orders
C29_Witness ==
  /\ TwoRuns
  /\ kinds = {"banana", "install"}
  /\ prev.errs[1] = InvalidKindError("install", KeyOrder(2))
  /\ errs[1] = InvalidKindError("banana", KeyOrder(1))
  /\ labeler.currentMap = {"kind/install"}
  /\ \E i \in CallsOf("add") : InvalidKindLabel \in ArgSet(calls[i])

\* C30 as the specification words it: in every call on one labeler, the
\* deltas are those a fresh labeler computes from the body and the snapshot
\* of the call, no label is in both deltas, labelsToRemove is within the
\* snapshot and labelsToAdd is outside it.
C30_ReuseLikeFresh ==
  (pass >= 2 /\ BothRan) =>
    /\ labeler.labelsToAdd \cap labeler.labelsToRemove = {}
    /\ labeler.labelsToRemove \subseteq labeler.currentMap
    /\ labeler.labelsToAdd \cap labeler.currentMap = {}
    /\ \E k \in UnsupportedOf(kinds) \cup {""}, order \in KeyOrders :
         labeler =
           NoteRules(VerifyAndSyncKinds(
                       [NewLabeler EXCEPT !.currentMap = labeler.currentMap],
                       kinds, k, order).l, match).l

====
